---- MODULE Spec2Model ----
(***************************************************************************)
(* Model of ts-module-alias (src/index.ts): the ModuleAlias class that     *)
(* replaces Module._nodeModulePaths and Module._resolveFilename of a       *)
(* module constructor, keeps an alias table and a list of extra module     *)
(* directories, and rewrites requests before delegating to the captured    *)
(* functions.                                                              *)
(*                                                                         *)
(* Strings are sequences of one-character strings, so that indexOf,        *)
(* substr, the default Array.prototype.sort order and Path.normalize /     *)
(* Path.join (POSIX flavour) are computed and not assumed.                 *)
(***************************************************************************)
EXTENDS Naturals, Sequences, FiniteSets, TLC

------------------------------------------------------------------------------
(* Strings *)

\* The characters the model's strings use, in ascending UTF-16 code unit order.
Alphabet == <<"-", ".", "/", "0", "1", "2", "3", "4", "5", "6", "7", "8", "9",
              "@", "_", "a", "b", "c", "d", "e", "f", "g", "h", "i", "j", "k",
              "l", "m", "n", "o", "p", "q", "r", "s", "t", "u", "v", "w", "x",
              "y", "z">>

Code(c) == CHOOSE i \in 1..Len(Alphabet) : Alphabet[i] = c

Digits == {"0", "1", "2", "3", "4", "5", "6", "7", "8", "9"}

DigitValue(c) == Code(c) - Code("0")

\* a < b in the order Array.prototype.sort() uses without a comparator:
\* code unit by code unit, a proper prefix before the longer string.
RECURSIVE StrLess(_, _)
StrLess(a, b) ==
  IF b = <<>> THEN FALSE
  ELSE IF a = <<>> THEN TRUE
  ELSE IF a[1] # b[1] THEN Code(a[1]) < Code(b[1])
  ELSE StrLess(Tail(a), Tail(b))

\* s.substr(n): the characters of s from (0-based) position n on.
Substr(s, n) == IF n >= Len(s) THEN <<>> ELSE SubSeq(s, n + 1, Len(s))

\* s.indexOf(p) === 0
IndexOfIsZero(s, p) == Len(p) <= Len(s) /\ SubSeq(s, 1, Len(p)) = p

\* s.indexOf(p) === -1, for a non-empty p
NotContains(s, p) ==
  \A i \in 1..Len(s) : i + Len(p) - 1 > Len(s) \/ SubSeq(s, i, i + Len(p) - 1) # p

\* array.indexOf(x) === -1
NotInArray(arr, x) == \A i \in 1..Len(arr) : arr[i] # x

------------------------------------------------------------------------------
(* Node's path module, POSIX flavour *)

\* The pieces of s between '/' characters (String.prototype.split('/')).
RECURSIVE SplitFrom(_, _, _)
SplitFrom(s, i, cur) ==
  IF i > Len(s) THEN <<cur>>
  ELSE IF s[i] = "/" THEN <<cur>> \o SplitFrom(s, i + 1, <<>>)
  ELSE SplitFrom(s, i + 1, Append(cur, s[i]))

Segments(s) == SplitFrom(s, 1, <<>>)

\* normalizeString: drops empty and '.' segments, resolves '..' against the
\* segment before it, keeps a leading '..' only when allowAboveRoot.
RECURSIVE NormalizeSegments(_, _, _, _)
NormalizeSegments(segs, i, res, allowAboveRoot) ==
  IF i > Len(segs) THEN res
  ELSE LET g == segs[i] IN
    IF g = <<>> \/ g = <<".">> THEN NormalizeSegments(segs, i + 1, res, allowAboveRoot)
    ELSE IF g = <<".", ".">> THEN
      IF Len(res) > 0 /\ res[Len(res)] # <<".", ".">>
        THEN NormalizeSegments(segs, i + 1, SubSeq(res, 1, Len(res) - 1), allowAboveRoot)
      ELSE IF allowAboveRoot
        THEN NormalizeSegments(segs, i + 1, Append(res, g), allowAboveRoot)
      ELSE NormalizeSegments(segs, i + 1, res, allowAboveRoot)
    ELSE NormalizeSegments(segs, i + 1, Append(res, g), allowAboveRoot)

RECURSIVE JoinSegments(_)
JoinSegments(segs) ==
  IF segs = <<>> THEN <<>>
  ELSE IF Len(segs) = 1 THEN segs[1]
  ELSE segs[1] \o <<"/">> \o JoinSegments(Tail(segs))

PathIsAbsolute(p) == Len(p) > 0 /\ p[1] = "/"

PathNormalize(p) ==
  IF Len(p) = 0 THEN <<".">>
  ELSE LET isAbsolute        == p[1] = "/"
           trailingSeparator == p[Len(p)] = "/"
           body == JoinSegments(NormalizeSegments(Segments(p), 1, <<>>, ~isAbsolute))
       IN IF Len(body) = 0
            THEN IF isAbsolute THEN <<"/">>
                 ELSE IF trailingSeparator THEN <<".", "/">> ELSE <<".">>
            ELSE (IF isAbsolute THEN <<"/">> ELSE <<>>) \o body
                   \o (IF trailingSeparator THEN <<"/">> ELSE <<>>)

\* Path.join(a, b): the non-empty arguments joined by '/', then normalized.
PathJoin(a, b) ==
  IF Len(a) = 0 /\ Len(b) = 0 THEN <<".">>
  ELSE IF Len(a) = 0 THEN PathNormalize(b)
  ELSE IF Len(b) = 0 THEN PathNormalize(a)
  ELSE PathNormalize(a \o <<"/">> \o b)

------------------------------------------------------------------------------
(* JavaScript values and objects *)

\* An alias target: a path string, or a custom handler function (named by id).
Static(p)  == [fn |-> FALSE, path |-> p, id |-> ""]
Handler(h) == [fn |-> TRUE, path |-> <<>>, id |-> h]

JsString(s) == [t |-> "string", s |-> s]
JsUndefined == [t |-> "undefined", s |-> <<>>]
JsNumber    == [t |-> "number", s |-> <<"4", "2">>]

\* A canonical array index: the property names Object.keys lists first.
IsArrayIndex(s) ==
  /\ Len(s) > 0
  /\ \A i \in 1..Len(s) : s[i] \in Digits
  /\ (Len(s) = 1 \/ s[1] # "0")

RECURSIVE NumValue(_)
NumValue(s) ==
  IF s = <<>> THEN 0
  ELSE NumValue(SubSeq(s, 1, Len(s) - 1)) * 10 + DigitValue(s[Len(s)])

RECURSIVE SortIndexKeys(_)
SortIndexKeys(S) ==
  IF S = {} THEN <<>>
  ELSE LET m == CHOOSE x \in S : \A y \in S : NumValue(x) <= NumValue(y)
       IN <<m>> \o SortIndexKeys(S \ {m})

\* The elements of arr in order of first occurrence.
RECURSIVE FirstOccurrences(_, _)
FirstOccurrences(arr, seen) ==
  IF arr = <<>> THEN <<>>
  ELSE IF arr[1] \in seen THEN FirstOccurrences(Tail(arr), seen)
  ELSE <<arr[1]>> \o FirstOccurrences(Tail(arr), seen \cup {arr[1]})

IsNotArrayIndex(s) == ~IsArrayIndex(s)

\* Object.keys(o) of an object whose properties were created in the order of
\* `insertions`: array-index names ascending by value, then the other names in
\* creation order (OrdinaryOwnPropertyKeys).
ObjectKeys(insertions) ==
  SortIndexKeys({insertions[i] : i \in {j \in 1..Len(insertions) : IsArrayIndex(insertions[j])}})
    \o SelectSeq(FirstOccurrences(insertions, {}), IsNotArrayIndex)

\* names.sort(): ascending by code units.
RECURSIVE SortStrings(_)
SortStrings(S) ==
  IF S = {} THEN <<>>
  ELSE LET m == CHOOSE x \in S : \A y \in S \ {x} : StrLess(x, y)
       IN <<m>> \o SortStrings(S \ {m})

------------------------------------------------------------------------------
(* The environment: modules, the file system, the runtime's own functions *)

NoModule == "none"
Modules  == {"main", "other"}

SlashSrc    == <<"/", "s", "r", "c">>
SlashLib    == <<"/", "l", "i", "b">>
SlashOthers == <<"/", "o", "t", "h", "e", "r", "s">>
AppDir      == <<"/", "a", "p", "p">>
NodeModules == <<"n", "o", "d", "e", "_", "m", "o", "d", "u", "l", "e", "s">>
PackageJsonFile == <<"p", "a", "c", "k", "a", "g", "e", ".", "j", "s", "o", "n">>
UpTwo       == <<".", ".", "/", ".", ".">>

\* parent.filename
Filename(m) ==
  IF m = "main" THEN AppDir \o <<"/", "m", "a", "i", "n", ".", "j", "s">>
  ELSE SlashOthers \o <<"/", "o", ".", "j", "s">>

\* __dirname of the compiled library and process.cwd()
Dirname == AppDir \o <<"/">> \o NodeModules \o <<"/", "t", "s", "m", "a", "/", "d", "i", "s", "t">>
Cwd     == <<"/", "w", "o", "r", "k">>

AtRoot    == <<"@", "r", "o", "o", "t">>
AtClient  == <<"@", "c", "l", "i", "e", "n", "t">>
Dot       == <<".">>
SrcClient == SlashSrc \o <<"/", "c", "l", "i", "e", "n", "t">>
CustomDir == NodeModules \o <<"_", "c", "u", "s", "t", "o", "m">>

NoManifest == [found |-> FALSE, aliases |-> <<>>, dirsIsArray |-> FALSE, dirs |-> <<>>]

\* require(Path.join(base, 'package.json')): the manifests on disk. /app holds
\* the README's configuration, /work an application without any.
RequirePackageJson(file) ==
  IF file = AppDir \o <<"/">> \o PackageJsonFile THEN
    [found |-> TRUE,
     aliases |-> (AtRoot :> Dot) @@ (AtClient :> SrcClient),
     dirsIsArray |-> TRUE,
     dirs |-> <<NodeModules, CustomDir, <<".", "/">> \o CustomDir>>]
  ELSE IF file = Cwd \o <<"/">> \o PackageJsonFile THEN
    [found |-> TRUE, aliases |-> <<>>, dirsIsArray |-> FALSE, dirs |-> <<>>]
  ELSE NoManifest

\* The custom handler functions of the model: the README's example, and three
\* that do not return a path.
CallHandler(h, fromPath, request, alias) ==
  CASE h = "byCaller" ->
         JsString(IF IndexOfIsZero(fromPath, SlashOthers) THEN SlashOthers ELSE SlashSrc)
    [] h = "returnsUndefined" -> JsUndefined
    [] h = "returnsEmpty" -> JsString(<<>>)
    [] h = "returnsNumber" -> JsNumber

\* The directories of `from` and of its ancestors, deepest first.
RECURSIVE AncestorDirs(_)
AncestorDirs(segs) ==
  IF segs = <<>> THEN <<>>
  ELSE <<segs>> \o AncestorDirs(SubSeq(segs, 1, Len(segs) - 1))

DirNotNodeModules(segs) == segs[Len(segs)] # NodeModules

RECURSIVE WithNodeModules(_)
WithNodeModules(dirs) ==
  IF dirs = <<>> THEN <<>>
  ELSE <<<<"/">> \o JoinSegments(dirs[1]) \o <<"/">> \o NodeModules>>
         \o WithNodeModules(Tail(dirs))

\* The runtime's own Module._nodeModulePaths: <dir>/node_modules for `from` and
\* each of its ancestors that is not itself a node_modules directory.
RuntimeNodeModulePaths(from) ==
  WithNodeModules(SelectSeq(
      AncestorDirs(NormalizeSegments(Segments(from), 1, <<>>, FALSE)), DirNotNodeModules))
    \o <<<<"/">> \o NodeModules>>

------------------------------------------------------------------------------
(* The ModuleAlias class: methods as operators on an instance *)

\* A function value held by the module constructor or captured by an instance:
\* 0 is the runtime's own function, i > 0 the wrapper closing over instances[i].
RuntimeFunction == 0

\* module.paths of a module: an array, or undefined.
NoPaths        == [def |-> FALSE, list |-> <<>>]
PathsArray(l)  == [def |-> TRUE, list |-> l]

\* The fields of a new instance, after the field initialisers and the capture
\* of the constructor's current functions. `base` is the constructor's local
\* of that name, kept for stating properties.
NewInstance(m, oldNMP, oldRF) ==
  [module |-> m,
   oldNodeModulePaths |-> oldNMP,
   oldResolveFilename |-> oldRF,
   modulePaths |-> <<>>,
   moduleAliases |-> <<>>,
   moduleAliasNames |-> <<>>,
   base |-> <<>>]

\* this.moduleAliases[alias] = target
PutAlias(aliases, alias, target) ==
  [n \in DOMAIN aliases \cup {alias} |-> IF n = alias THEN target ELSE aliases[n]]

\* Object.keys(this.moduleAliases) followed by sort()
SortedKeys(aliases) == SortStrings(DOMAIN aliases)

\* Mutant: a name already in the table keeps its first target.
addAlias_KeepFirst(self, alias, target) ==
  IF alias \in DOMAIN self.moduleAliases THEN self
  ELSE LET aliases == PutAlias(self.moduleAliases, alias, target)
       IN [self EXCEPT !.moduleAliases = aliases, !.moduleAliasNames = SortedKeys(aliases)]

addAlias(self, alias, target) ==
  LET aliases == PutAlias(self.moduleAliases, alias, target)
  IN [self EXCEPT !.moduleAliases = aliases, !.moduleAliasNames = SortedKeys(aliases)]

\* for (let alias in aliases) this.addAlias(alias, aliases[alias]), the keys
\* taken in the order `order`.
RECURSIVE addAliasesIn(_, _, _)
addAliasesIn(self, aliases, order) ==
  IF order = <<>> THEN self
  ELSE addAliasesIn(addAlias(self, order[1], aliases[order[1]]), aliases, Tail(order))

addAliases(self, aliases) == addAliasesIn(self, aliases, ObjectKeys(SortStrings(DOMAIN aliases)))

\* Mutant: the alias as a bare prefix, without the '/' or end-of-string boundary.
isPathMatchesAlias_NoBoundary(path, alias) == IndexOfIsZero(path, alias)

isPathMatchesAlias(path, alias) ==
  /\ IndexOfIsZero(path, alias)
  /\ (Len(path) = Len(alias) \/ path[Len(alias) + 1] = "/")

addPathHelper(path, targetArray) ==
  LET p == PathNormalize(path)
  IN IF targetArray.def /\ NotInArray(targetArray.list, p)
       THEN PathsArray(<<p>> \o targetArray.list)
       ELSE targetArray

\* Mutant: the path is added without looking for it in modulePaths first.
addPath_NoCheck(self, modPaths, path) ==
  LET p == PathNormalize(path)
  IN [self  |-> [self EXCEPT !.modulePaths = <<p>> \o self.modulePaths],
      paths |-> addPathHelper(p, modPaths)]

\* addPath on `self`, whose module's paths are `modPaths`: the new instance
\* and the new module.paths.
addPath(self, modPaths, path) ==
  LET p == PathNormalize(path)
  IN IF NotInArray(self.modulePaths, p)
       THEN [self  |-> [self EXCEPT !.modulePaths = <<p>> \o self.modulePaths],
             paths |-> addPathHelper(p, modPaths)]
       ELSE [self |-> self, paths |-> modPaths]

\* The loop of resolveFilename: the index in moduleAliasNames of the first
\* alias, walking from the last name down, that matches; 0 when none does.
RECURSIVE FirstMatchFrom(_, _, _)
FirstMatchFrom(names, i, request) ==
  IF i = 0 THEN 0
  ELSE IF isPathMatchesAlias(request, names[i]) THEN i
  ELSE FirstMatchFrom(names, i - 1, request)

\* Mutant: the name index walked from its first name up.
SelectAlias_Ascending(names, request) ==
  LET hits == {i \in 1..Len(names) : isPathMatchesAlias(request, names[i])}
  IN IF hits = {} THEN 0 ELSE CHOOSE i \in hits : \A j \in hits : i <= j

SelectAlias(names, request) == FirstMatchFrom(names, Len(names), request)

\* Mutant: only the type of the handler's value is tested.
NotAPath_TypeOnly(v) == v.t # "string"

\* !aliasTarget || typeof aliasTarget !== 'string'
NotAPath(v) == v.t # "string" \/ Len(v.s) = 0

\* Path.join(aliasTarget, request.substr(alias.length))
RewriteRequest(aliasTarget, request, alias) ==
  PathJoin(aliasTarget, Substr(request, Len(alias)))

\* The rebuilt parent.paths: the keys of an object given one property per
\* entry of [...self.modulePaths, ...parent.paths].
RepairedPaths(modulePaths, parentPaths) ==
  PathsArray(ObjectKeys(IF parentPaths.def THEN modulePaths \o parentPaths.list
                        ELSE modulePaths))

Returned(calls, paths) == [calls |-> calls, err |-> "", paths |-> paths]
Thrown(err, paths)     == [calls |-> <<>>, err |-> err, paths |-> paths]

\* A call of the function value f as _resolveFilename(request, parent): the
\* delegate calls made on the way (outermost first), the error thrown if any,
\* and parent.paths afterwards.
RECURSIVE CallResolveFilename(_, _, _, _, _)

resolveFilename(insts, i, request, parent, parentPaths) ==
  LET self    == insts[i]
      k       == SelectAlias(self.moduleAliasNames, request)
      matched == k > 0
      alias   == IF matched THEN self.moduleAliasNames[k] ELSE <<>>
      rule    == self.moduleAliases[alias]
      custom  == matched /\ rule.fn
      value   == IF custom THEN CallHandler(rule.id, Filename(parent), request, alias)
                 ELSE JsString(rule.path)
  IN IF custom /\ parent = NoModule THEN Thrown("TypeError", parentPaths)
     ELSE IF custom /\ NotAPath(value) THEN Thrown("ConfigurationError", parentPaths)
     ELSE
       LET newRequest == IF matched THEN RewriteRequest(value.s, request, alias)
                         ELSE request
           newPaths   == IF parent = NoModule THEN parentPaths
                         ELSE RepairedPaths(self.modulePaths, parentPaths)
           rest == CallResolveFilename(insts, self.oldResolveFilename,
                                       newRequest, parent, newPaths)
       IN [calls |-> <<[by |-> i, to |-> self.oldResolveFilename, matched |-> matched,
                        alias |-> alias, request |-> newRequest, paths |-> newPaths]>>
                     \o rest.calls,
           err   |-> rest.err,
           paths |-> rest.paths]

CallResolveFilename(insts, f, request, parent, parentPaths) ==
  IF f = RuntimeFunction THEN Returned(<<>>, parentPaths)
  ELSE resolveFilename(insts, f, request, parent, parentPaths)

\* A call of the function value f as _nodeModulePaths(from).
RECURSIVE CallNodeModulePaths(_, _, _)

nodeModulePaths(insts, i, from) ==
  LET self  == insts[i]
      paths == CallNodeModulePaths(insts, self.oldNodeModulePaths, from)
  IN IF NotContains(from, NodeModules) THEN self.modulePaths \o paths ELSE paths

CallNodeModulePaths(insts, f, from) ==
  IF f = RuntimeFunction THEN RuntimeNodeModulePaths(from)
  ELSE nodeModulePaths(insts, f, from)

\* The number of wrappers a call of f passes through before the runtime's own
\* function, following the captured old function `field` of each.
RECURSIVE ChainLength(_, _, _)
ChainLength(insts, f, field) ==
  IF f = RuntimeFunction THEN 0
  ELSE 1 + ChainLength(insts, insts[f][field], field)

------------------------------------------------------------------------------
(* The constructor's manifest import *)

\* No `base` option (an absent or empty string is falsy).
NoBase == <<>>

PackageJsonSuffix == <<"/">> \o PackageJsonFile

\* options.base.replace(/\/package\.json$/, '')
StripPackageJson(b) ==
  IF Len(b) >= Len(PackageJsonSuffix)
     /\ SubSeq(b, Len(b) - Len(PackageJsonSuffix) + 1, Len(b)) = PackageJsonSuffix
    THEN SubSeq(b, 1, Len(b) - Len(PackageJsonSuffix))
    ELSE b

\* Path.resolve(p): absolute, normalized, without a trailing separator.
PathResolve(p) ==
  LET n == PathNormalize(IF PathIsAbsolute(p) THEN p ELSE Cwd \o <<"/">> \o p)
  IN IF Len(n) > 1 /\ n[Len(n)] = "/" THEN SubSeq(n, 1, Len(n) - 1) ELSE n

candidatePackagePaths(givenBase) ==
  IF givenBase # NoBase THEN <<PathResolve(StripPackageJson(givenBase))>>
  ELSE <<PathJoin(Dirname, UpTwo), Cwd>>

\* The loop over the candidates: the index of the first one whose package.json
\* loads, 0 when none does.
RECURSIVE FirstManifest(_, _)
FirstManifest(candidates, i) ==
  IF i > Len(candidates) THEN 0
  ELSE IF RequirePackageJson(PathJoin(candidates[i], PackageJsonFile)).found THEN i
  ELSE FirstManifest(candidates, i + 1)

\* The target the constructor registers for a manifest alias.
ImportedTarget(base, target) ==
  IF PathIsAbsolute(target) THEN PathJoin(base, target) ELSE target

ImportAliases(base, aliases) ==
  [a \in DOMAIN aliases |-> Static(ImportedTarget(base, aliases[a]))]

\* npmPackage._moduleDirectories.forEach(...)
RECURSIVE ImportDirectories(_, _, _, _)
ImportDirectories(self, modPaths, base, dirs) ==
  IF dirs = <<>> THEN [self |-> self, paths |-> modPaths]
  ELSE IF dirs[1] = NodeModules THEN ImportDirectories(self, modPaths, base, Tail(dirs))
  ELSE LET r == addPath(self, modPaths, PathJoin(base, dirs[1]))
       IN ImportDirectories(r.self, r.paths, base, Tail(dirs))

\* Mutant: the guard against a second installation never holds.
AlreadyInstalled_Never(published) == FALSE

\* if (this.ModuleCtor._moduleAlias) return this.ModuleCtor._moduleAlias
AlreadyInstalled(published) == published # 0

------------------------------------------------------------------------------
(* State *)

VARIABLES
  instances,            \* the ModuleAlias objects whose constructor got past the guard
  ctorNodeModulePaths,  \* ModuleCtor._nodeModulePaths
  ctorResolveFilename,  \* ModuleCtor._resolveFilename
  ctorModuleAlias,      \* ModuleCtor._moduleAlias: 0 undefined, else an instance
  paths,                \* module.paths of each module
  moduleParent,         \* module.parent of the library's own module
  handles,              \* the instances `new ModuleAlias(...)` has returned
  lastWrite,            \* history: per alias, the target of the latest registration
  replaced,             \* history: the aliases registered again with another target
  out                   \* the outcome of the latest operation

vars == <<instances, ctorNodeModulePaths, ctorResolveFilename, ctorModuleAlias,
          paths, moduleParent, handles, lastWrite, replaced, out>>

\* Bound on the number of constructions that get past the guard.
MaxInstances == 2

Out(op) ==
  [op |-> op, err |-> "", how |-> "", ret |-> 0, arg |-> <<>>, parent |-> NoModule,
   target |-> Static(<<>>), before |-> NoPaths, calls |-> <<>>, result |-> <<>>]

Record(history, alias, target) ==
  [n \in DOMAIN history \cup {alias} |-> IF n = alias THEN target ELSE history[n]]

RecordAll(history, aliases) ==
  [n \in DOMAIN history \cup DOMAIN aliases |->
     IF n \in DOMAIN aliases THEN aliases[n] ELSE history[n]]

MainNodeModules == AppDir \o <<"/">> \o NodeModules

InitWith(parents, initialPaths) ==
  /\ instances = <<>>
  /\ ctorNodeModulePaths = RuntimeFunction
  /\ ctorResolveFilename = RuntimeFunction
  /\ ctorModuleAlias = 0
  /\ paths \in [Modules -> initialPaths]
  /\ moduleParent \in parents
  /\ handles = {}
  /\ lastWrite = <<>>
  /\ replaced = {}
  /\ out = Out("init")

------------------------------------------------------------------------------
(* Operations *)

\* new ModuleAlias(parent, givenBase)
Construct(parent, givenBase) ==
  LET m == IF parent # NoModule THEN parent ELSE moduleParent
  IN IF m = NoModule THEN
       /\ out' = [Out("construct") EXCEPT !.err = "InitializationError: parent",
                                          !.arg = givenBase, !.parent = parent]
       /\ UNCHANGED <<instances, ctorNodeModulePaths, ctorResolveFilename,
                      ctorModuleAlias, paths, moduleParent, handles, lastWrite,
                      replaced>>
     ELSE IF AlreadyInstalled(ctorModuleAlias) THEN
       /\ handles' = handles \cup {ctorModuleAlias}
       /\ out' = [Out("construct") EXCEPT !.how = "existing", !.ret = ctorModuleAlias,
                                          !.arg = givenBase, !.parent = parent]
       /\ UNCHANGED <<instances, ctorNodeModulePaths, ctorResolveFilename,
                      ctorModuleAlias, paths, moduleParent, lastWrite, replaced>>
     ELSE
       /\ Len(instances) < MaxInstances
       /\ LET i          == Len(instances) + 1
              fresh      == NewInstance(m, ctorNodeModulePaths, ctorResolveFilename)
              candidates == candidatePackagePaths(givenBase)
              k          == FirstManifest(candidates, 1)
          IN /\ ctorNodeModulePaths' = i
             /\ ctorResolveFilename' = i
             /\ IF k = 0 THEN
                  /\ instances' = Append(instances, fresh)
                  /\ out' = [Out("construct") EXCEPT
                               !.err = "InitializationError: manifest",
                               !.arg = givenBase, !.parent = parent]
                  /\ UNCHANGED <<ctorModuleAlias, paths, handles, lastWrite>>
                ELSE
                  LET base     == candidates[k]
                      pkg      == RequirePackageJson(PathJoin(base, PackageJsonFile))
                      aliases  == ImportAliases(base, pkg.aliases)
                      aliased  == addAliases([fresh EXCEPT !.base = base], aliases)
                      imported == IF pkg.dirsIsArray
                                    THEN ImportDirectories(aliased, paths[m], base, pkg.dirs)
                                    ELSE [self |-> aliased, paths |-> paths[m]]
                  IN /\ instances' = Append(instances, imported.self)
                     /\ paths' = [paths EXCEPT ![m] = imported.paths]
                     /\ ctorModuleAlias' = i
                     /\ handles' = handles \cup {i}
                     /\ lastWrite' = RecordAll(lastWrite, aliases)
                     /\ out' = [Out("construct") EXCEPT !.how = "installed", !.ret = i,
                                                        !.arg = givenBase, !.parent = parent]
             /\ UNCHANGED <<moduleParent, replaced>>

\* The aliases of `aliases` that `history` holds with another target.
Overwritten(history, aliases) ==
  {n \in DOMAIN aliases : n \in DOMAIN history /\ history[n] # aliases[n]}

\* handle.addAlias(alias, target). The history variable `replaced` is left to
\* the specification: it is tracked only where a property needs it.
AddAlias(h, alias, target) ==
  /\ h \in handles
  /\ instances' = [instances EXCEPT ![h] = addAlias(@, alias, target)]
  /\ lastWrite' = Record(lastWrite, alias, target)
  /\ out' = [Out("addAlias") EXCEPT !.ret = h, !.arg = alias, !.target = target]
  /\ UNCHANGED <<ctorNodeModulePaths, ctorResolveFilename, ctorModuleAlias, paths,
                 moduleParent, handles>>

\* handle.addAliases(aliases); `replaced` as for AddAlias.
AddAliases(h, aliases) ==
  /\ h \in handles
  /\ instances' = [instances EXCEPT ![h] = addAliases(@, aliases)]
  /\ lastWrite' = RecordAll(lastWrite, aliases)
  /\ out' = [Out("addAliases") EXCEPT !.ret = h]
  /\ UNCHANGED <<ctorNodeModulePaths, ctorResolveFilename, ctorModuleAlias, paths,
                 moduleParent, handles>>

\* handle.addPath(path)
AddPath(h, path) ==
  /\ h \in handles
  /\ LET self == instances[h]
         r    == addPath(self, paths[self.module], path)
     IN /\ instances' = [instances EXCEPT ![h] = r.self]
        /\ paths' = [paths EXCEPT ![self.module] = r.paths]
  /\ out' = [Out("addPath") EXCEPT
               !.ret = h, !.arg = path,
               !.how = IF instances'[h].modulePaths = instances[h].modulePaths
                         THEN "present" ELSE "added"]
  /\ UNCHANGED <<ctorNodeModulePaths, ctorResolveFilename, ctorModuleAlias,
                 moduleParent, handles, lastWrite, replaced>>

\* The runtime resolves `request` for `parent`: ModuleCtor._resolveFilename(request, parent)
ResolveFilename(request, parent) ==
  /\ ctorResolveFilename # RuntimeFunction
  /\ LET r == CallResolveFilename(instances, ctorResolveFilename, request, parent,
                                  IF parent = NoModule THEN NoPaths ELSE paths[parent])
     IN /\ paths' = IF parent = NoModule THEN paths ELSE [paths EXCEPT ![parent] = r.paths]
        /\ out' = [Out("resolveFilename") EXCEPT
                     !.err = r.err, !.arg = request, !.parent = parent,
                     !.before = IF parent = NoModule THEN NoPaths ELSE paths[parent],
                     !.calls = r.calls]
  /\ UNCHANGED <<instances, ctorNodeModulePaths, ctorResolveFilename, ctorModuleAlias,
                 moduleParent, handles, lastWrite, replaced>>

\* The runtime asks for the directories of `from`: ModuleCtor._nodeModulePaths(from)
NodeModulePaths(from) ==
  /\ ctorNodeModulePaths # RuntimeFunction
  /\ out' = [Out("nodeModulePaths") EXCEPT
               !.arg = from,
               !.result = CallNodeModulePaths(instances, ctorNodeModulePaths, from)]
  /\ UNCHANGED <<instances, ctorNodeModulePaths, ctorResolveFilename, ctorModuleAlias,
                 paths, moduleParent, handles, lastWrite, replaced>>

------------------------------------------------------------------------------
(* Alias registration and request rewriting *)

AtA         == <<"@", "a">>
AtASub      == AtA \o <<"/", "s", "u", "b">>
AtAb        == AtA \o <<"b">>
DotSlashSrc == <<".", "/", "s", "r", "c">>
ReqPlain    == <<"x">>

AliasNames == {AtA, AtASub, AtAb}

AliasTargets ==
  {Static(SlashSrc), Static(SlashLib), Static(DotSlashSrc), Handler("byCaller"),
   Handler("returnsUndefined"), Handler("returnsEmpty"), Handler("returnsNumber")}

AliasMaps ==
  {(AtA :> Static(SlashSrc)) @@ (AtASub :> Static(SlashLib)),
   (AtA :> Static(SlashLib)) @@ (AtAb :> Handler("byCaller"))}

AliasRequests ==
  {AtA, AtA \o <<"/", "x">>, AtA \o <<"/", "x", "/", "y">>, AtAb, AtASub,
   AtASub \o <<"/", "f", "i", "l", "e">>, ReqPlain}

InitAlias == InitWith({"main"}, {PathsArray(<<MainNodeModules>>)})

NextAlias ==
  \/ \E p \in {NoModule, "main"} : Construct(p, NoBase)
  \/ \E h \in handles, a \in AliasNames, t \in AliasTargets :
       AddAlias(h, a, t) /\ UNCHANGED replaced
  \/ \E h \in handles, m \in AliasMaps : AddAliases(h, m) /\ UNCHANGED replaced
  \/ \E r \in AliasRequests, p \in Modules : ResolveFilename(r, p)

SpecAlias == InitAlias /\ [][NextAlias]_vars

\* Registration with the history of overwrites, on a smaller table.
OverwriteNames   == {AtA, AtASub}
OverwriteTargets == {Static(SlashSrc), Static(SlashLib), Handler("byCaller")}
OverwriteMaps    == {(AtA :> Static(SlashLib)) @@ (AtASub :> Static(SlashSrc))}
OverwriteRequests == {AtA \o <<"/", "x">>, AtASub, AtASub \o <<"/", "f", "i", "l", "e">>}

NextOverwrite ==
  \/ Construct("main", NoBase)
  \/ \E h \in handles, a \in OverwriteNames, t \in OverwriteTargets :
       /\ AddAlias(h, a, t)
       /\ replaced' = (replaced \ {a}) \cup Overwritten(lastWrite, a :> t)
  \/ \E h \in handles, m \in OverwriteMaps :
       /\ AddAliases(h, m)
       /\ replaced' = (replaced \ DOMAIN m) \cup Overwritten(lastWrite, m)
  \/ \E r \in OverwriteRequests, p \in Modules : ResolveFilename(r, p)

SpecOverwrite == InitAlias /\ [][NextOverwrite]_vars

------------------------------------------------------------------------------
(* Extra module directories *)

PathC    == <<"/", "c">>
PathCDot == PathC \o <<"/", ".">>
Path12   == <<"1", "2">>
Path2    == <<"2">>

PathInputs == {PathC, PathCDot, Path12, Path2}

RootNodeModules == <<"/">> \o NodeModules

\* module.paths as the runtime may have left it: not populated, or populated
\* (here with a repeated entry and one that is also a Path Set candidate).
InitialPaths == {NoPaths, PathsArray(<<RootNodeModules, PathC, RootNodeModules>>)}

FromSrc       == AppDir \o SlashSrc
FromInstalled == MainNodeModules \o <<"/", "p", "k", "g">>
FromCustom    == AppDir \o <<"/">> \o CustomDir \o SlashLib

Froms == {FromSrc, FromInstalled, FromCustom}

ReqRootLibX == AtRoot \o SlashLib \o <<"/", "x">>

InitPaths == InitWith({"main"}, InitialPaths)

NextPaths ==
  \/ \E b \in {NoBase, AppDir} : Construct(NoModule, b)
  \/ \E h \in handles, p \in PathInputs : AddPath(h, p)
  \/ \E r \in {ReqPlain, ReqRootLibX}, p \in Modules \cup {NoModule} : ResolveFilename(r, p)
  \/ \E f \in Froms : NodeModulePaths(f)

SpecPaths == InitPaths /\ [][NextPaths]_vars

------------------------------------------------------------------------------
(* Construction *)

NoPkgDir == <<"/", "n", "o", "p", "k", "g">>

BaseOptions == {NoBase, AppDir, AppDir \o PackageJsonSuffix, NoPkgDir}

InitCtor == InitWith({NoModule, "main"}, {PathsArray(<<MainNodeModules>>)})

NextCtor ==
  \/ \E p \in Modules \cup {NoModule}, b \in BaseOptions : Construct(p, b)
  \/ \E h \in handles : AddAlias(h, AtA, Static(SlashSrc)) /\ UNCHANGED replaced
  \/ \E h \in handles : AddPath(h, PathC)
  \/ \E r \in {ReqRootLibX, AtA \o <<"/", "x">>} : ResolveFilename(r, "main")
  \/ NodeModulePaths(FromSrc)

SpecCtor == InitCtor /\ [][NextCtor]_vars

------------------------------------------------------------------------------
(* Properties of request rewriting *)

\* The request starts with the alias and ends there or goes on with '/'.
BoundaryMatch(r, a) ==
  \/ r = a
  \/ Len(r) > Len(a) /\ SubSeq(r, 1, Len(a)) = a /\ r[Len(a) + 1] = "/"

\* r = a + '/' + a non-empty remainder
Extends(r, a) == Len(r) > Len(a) + 1 /\ SubSeq(r, 1, Len(a) + 1) = a \o <<"/">>

Remainder(r, a) == SubSeq(r, Len(a) + 2, Len(r))

PlainSegment(g) == g # <<>> /\ g # <<".">> /\ g # <<".", ".">>

AllPlain(segs) == \A i \in 1..Len(segs) : PlainSegment(segs[i])

\* An absolute path of plain segments, without a trailing separator.
PlainPath(t) == Len(t) > 1 /\ t[1] = "/" /\ AllPlain(Segments(Tail(t)))

Matching(self, r) == {a \in DOMAIN self.moduleAliases : BoundaryMatch(r, a)}

Longest(S, a) == a \in S /\ \A b \in S : Len(b) <= Len(a)

\* The latest operation was a resolution whose outermost wrapper called its delegate.
Delegated == out.op = "resolveFilename" /\ out.calls # <<>>

Top == out.calls[1]

TopSelf == instances[Top.by]

C2_LongestMatchWins ==
  Delegated =>
    /\ Top.matched <=> Matching(TopSelf, out.arg) # {}
    /\ Top.matched => Longest(Matching(TopSelf, out.arg), Top.alias)
    /\ (Top.matched /\ ~TopSelf.moduleAliases[Top.alias].fn) =>
         Top.request = PathJoin(TopSelf.moduleAliases[Top.alias].path,
                                Substr(out.arg, Len(Top.alias)))

\* C2 witness: with @a -> /src and @a/sub -> /lib both registered,
\* @a/sub/file was rewritten with the target of @a/sub.
C2_Witness ==
  /\ Delegated
  /\ out.arg = AtASub \o <<"/", "f", "i", "l", "e">>
  /\ {AtA, AtASub} \subseteq DOMAIN TopSelf.moduleAliases
  /\ TopSelf.moduleAliases[AtA] = Static(SlashSrc)
  /\ TopSelf.moduleAliases[AtASub] = Static(SlashLib)
  /\ Top.alias = AtASub
  /\ Top.request = SlashLib \o <<"/", "f", "i", "l", "e">>

\* The value the handler of the longest matching alias returns for the latest
\* resolution, when that alias has a handler and there is a parent.
HandlerSelected ==
  /\ out.op = "resolveFilename"
  /\ out.parent # NoModule
  /\ ctorModuleAlias # 0
  /\ \E a \in Matching(instances[ctorModuleAlias], out.arg) :
       /\ Longest(Matching(instances[ctorModuleAlias], out.arg), a)
       /\ instances[ctorModuleAlias].moduleAliases[a].fn

HandlerValue ==
  LET self == instances[ctorModuleAlias]
      a    == CHOOSE n \in Matching(self, out.arg) : Longest(Matching(self, out.arg), n)
  IN CallHandler(self.moduleAliases[a].id, Filename(out.parent), out.arg, a)

IsPathValue(v) == v.t = "string" /\ v.s # <<>>

\* C7: when the handler of the selected alias returns anything but a non-empty
\* string, the resolution fails with the configuration error, no delegate is
\* called, and the failing step leaves every instance (rules and name index)
\* as it was.
C7_BadHandlerFails ==
  /\ []((HandlerSelected /\ ~IsPathValue(HandlerValue)) =>
          (out.err = "ConfigurationError" /\ out.calls = <<>>))
  /\ [][(out'.op = "resolveFilename" /\ out'.err = "ConfigurationError")
          => instances' = instances]_vars

\* C7 witness: a resolution failed with the configuration error on a handler
\* that returned the empty string.
C7_Witness ==
  /\ HandlerSelected
  /\ HandlerValue = JsString(<<>>)
  /\ out.err = "ConfigurationError"

\* The name index is the ascending list of the rules' keys, each once.
IndexIsSortedKeys(self) ==
  /\ Len(self.moduleAliasNames) = Cardinality(DOMAIN self.moduleAliases)
  /\ {self.moduleAliasNames[i] : i \in 1..Len(self.moduleAliasNames)}
       = DOMAIN self.moduleAliases
  /\ \A i, j \in 1..Len(self.moduleAliasNames) :
       i < j => StrLess(self.moduleAliasNames[i], self.moduleAliasNames[j])

\* C8: the table holds, for every name ever registered, exactly the target of
\* its latest registration, the name index is the sorted key set with every
\* name once, and a resolution that selects a name uses that latest target.
C8_LastWriteWins ==
  ctorModuleAlias # 0 =>
    LET self == instances[ctorModuleAlias]
    IN /\ DOMAIN self.moduleAliases = DOMAIN lastWrite
       /\ \A n \in DOMAIN lastWrite : self.moduleAliases[n] = lastWrite[n]
       /\ IndexIsSortedKeys(self)
       /\ (Delegated /\ Top.matched) =>
            LET t == lastWrite[Top.alias]
                v == IF t.fn
                       THEN CallHandler(t.id, Filename(out.parent), out.arg, Top.alias).s
                       ELSE t.path
            IN Top.request = PathJoin(v, Substr(out.arg, Len(Top.alias)))

\* C8 witness: @a was registered again with another target, and a later
\* resolution of @a/x used the target of the latest registration, /lib.
C8_Witness ==
  /\ Delegated
  /\ out.arg = AtA \o <<"/", "x">>
  /\ Top.alias = AtA
  /\ AtA \in replaced
  /\ lastWrite[AtA] = Static(SlashLib)
  /\ Top.request = SlashLib \o <<"/", "x">>

------------------------------------------------------------------------------
(* Properties of the extra module directories *)

Elements(arr) == {arr[i] : i \in 1..Len(arr)}

NoDuplicates(arr) == \A i, j \in 1..Len(arr) : arr[i] = arr[j] => i = j

\* A component of the directory `from` is node_modules.
InsideNodeModules(from) == \E i \in 1..Len(Segments(from)) : Segments(from)[i] = NodeModules

\* C5 as stated: the directory list for `from` is the delegate's list when a
\* path component of `from` is node_modules, and for every other `from` the
\* Path Set entries, in Path Set order, followed by the delegate's list.
C5_AsStated ==
  (out.op = "nodeModulePaths" /\ ctorModuleAlias # 0) =>
    LET self     == instances[ctorModuleAlias]
        baseline == CallNodeModulePaths(instances, self.oldNodeModulePaths, out.arg)
    IN out.result = IF InsideNodeModules(out.arg) THEN baseline
                    ELSE self.modulePaths \o baseline

\* C6: no instance's Path Set holds a path twice, every entry is normalized;
\* an addPath step whose argument normalizes to an entry already there changes
\* neither the Path Set nor any module's paths, and any other addPath step
\* puts the normalized path in front of the Path Set.
C6_PathSetNoDuplicates ==
  /\ [](\A i \in 1..Len(instances) :
          /\ NoDuplicates(instances[i].modulePaths)
          /\ \A p \in Elements(instances[i].modulePaths) : PathNormalize(p) = p)
  /\ [][out'.op = "addPath" =>
          LET h == out'.ret
              p == PathNormalize(out'.arg)
          IN IF p \in Elements(instances[h].modulePaths)
               THEN instances' = instances /\ paths' = paths
               ELSE instances'[h].modulePaths = <<p>> \o instances[h].modulePaths]_vars

\* C6 witness: /c/. was added when the Path Set already held /c, which is
\* there once.
C6_Witness ==
  /\ out.op = "addPath"
  /\ out.arg = PathCDot
  /\ out.how = "present"
  /\ Cardinality({i \in 1..Len(instances[out.ret].modulePaths) :
                    instances[out.ret].modulePaths[i] = PathC}) = 1

\* The entries of arr that are not in `seen`, each once, in their order.
RECURSIVE Fresh(_, _)
Fresh(arr, seen) ==
  IF arr = <<>> THEN <<>>
  ELSE IF arr[1] \in seen THEN Fresh(Tail(arr), seen)
  ELSE <<arr[1]>> \o Fresh(Tail(arr), seen \cup {arr[1]})

\* C10 as stated: at the delegate call of a resolution with a requesting
\* module, the module's paths are the Path Set in Path Set order followed by
\* the module's previous entries that are not in the Path Set, in their
\* previous order, no path twice.
C10_AsStated ==
  (Delegated /\ out.parent # NoModule) =>
    /\ Top.paths.def
    /\ Top.paths.list = Fresh(TopSelf.modulePaths, {})
                          \o Fresh(out.before.list, Elements(TopSelf.modulePaths))

------------------------------------------------------------------------------
(* Properties of construction *)

\* C3: a construction for a module constructor that already carries a
\* published instance changes no instance, no installed function and no
\* module's paths, and returns the published instance whenever a requesting
\* module can be determined; every handle is the published instance, whose
\* wrappers are the installed functions, so that what is registered through
\* any handle is what the next resolution or directory lookup reads.
C3_SecondConstructionReturnsFirst ==
  /\ [][(out'.op = "construct" /\ ctorModuleAlias # 0) =>
          /\ UNCHANGED <<instances, ctorNodeModulePaths, ctorResolveFilename,
                         ctorModuleAlias, paths, handles>>
          /\ out'.err \in {"", "InitializationError: parent"}
          /\ out'.err = "" => out'.ret = ctorModuleAlias]_vars
  /\ [](/\ handles \subseteq {ctorModuleAlias}
        /\ ctorModuleAlias # 0 =>
             /\ ctorResolveFilename = ctorModuleAlias
             /\ ctorNodeModulePaths = ctorModuleAlias
             /\ Delegated =>
                  /\ Top.by = ctorModuleAlias
                  /\ Top.matched <=> Matching(instances[ctorModuleAlias], out.arg) # {}
             /\ (out.op = "nodeModulePaths" /\ InsideNodeModules(out.arg) = FALSE) =>
                  SubSeq(out.result, 1, Len(instances[ctorModuleAlias].modulePaths))
                    = instances[ctorModuleAlias].modulePaths)

\* C3 witness: a construction found the published instance and returned it.
C3_Witness ==
  /\ out.op = "construct"
  /\ out.how = "existing"
  /\ out.ret = ctorModuleAlias
  /\ ctorModuleAlias # 0

\* C4 as stated: whatever constructions were attempted, the runtime's
\* functions were captured at most once, no instance captured a wrapper as its
\* delegate, and a call passes through at most one wrapper.
C4_AsStated ==
  /\ Len(instances) <= 1
  /\ \A i \in 1..Len(instances) :
       /\ instances[i].oldNodeModulePaths = RuntimeFunction
       /\ instances[i].oldResolveFilename = RuntimeFunction
  /\ ChainLength(instances, ctorNodeModulePaths, "oldNodeModulePaths") <= 1
  /\ ChainLength(instances, ctorResolveFilename, "oldResolveFilename") <= 1

\* C9 as stated: with the manifest at base declaring @root as ".", the
\* request @root/lib/x reaches the delegate as <base>/lib/x.
C9_AsStated ==
  (/\ Delegated
   /\ out.arg = ReqRootLibX
   /\ Top.by = ctorModuleAlias
   /\ RequirePackageJson(PathJoin(TopSelf.base, PackageJsonFile)).found
   /\ AtRoot \in DOMAIN RequirePackageJson(PathJoin(TopSelf.base, PackageJsonFile)).aliases
   /\ RequirePackageJson(PathJoin(TopSelf.base, PackageJsonFile)).aliases[AtRoot] = Dot)
    => Top.request = TopSelf.base \o SlashLib \o <<"/", "x">>

====
